---- MODULE Spec2Model ----
(***************************************************************************)
(* A model of go-amd64-emulator (main.go): the register file and memory,   *)
(* the fetch/decode/execute loop of cpu.loop, the bootstrap of cpu.run,    *)
(* the capacity-1 channel cpu.tick, and the two controllers of main (the   *)
(* free-run loop and repl).                                                *)
(*                                                                         *)
(* A uint64 is held as its eight base-256 digits, least significant first  *)
(* (digit d carries bits 8(d-1) .. 8d-1), because the values of the        *)
(* program do not fit the integers of the model checker.  All arithmetic   *)
(* on them is modulo 2^64, as in Go.                                       *)
(***************************************************************************)
EXTENDS Integers, Sequences, FiniteSets, TLC

VARIABLES mem, regfile, tick, epc, exitStatus, proc, elf, debug, cpc, locals, intFormat,
          obs, produced, consumed, executed, hist, raxAtHalt

vars == <<mem, regfile, tick, epc, exitStatus, proc, elf, debug, cpc, locals, intFormat,
          obs, produced, consumed, executed, hist, raxAtHalt>>

(***************************************************************************)
(* Bounds of the model.                                                    *)
(***************************************************************************)
\* len(c.mem): 0x400000 * 10 in main, scaled down.
MemSize == 32

\* The step requests a controller sends in one run of the model.
MaxSteps == 8

(***************************************************************************)
(* uint64 and byte arithmetic.                                             *)
(***************************************************************************)
Byte == 0..255
Digits == 1..8

\* The uint64 with digit d equal to F(d), as a tuple.
Make64(F(_)) == <<F(1), F(2), F(3), F(4), F(5), F(6), F(7), F(8)>>

Zero64 == <<0, 0, 0, 0, 0, 0, 0, 0>>

\* Body(v) for v the value of e, and Body(v, w) for the values of e and f, with
\* e and f evaluated once.
With(e, Body(_)) == CHOOSE y \in { Body(v) : v \in {e} } : TRUE
With2(e, f, Body(_, _)) == CHOOSE y \in { Body(p[1], p[2]) : p \in {<<e, f>>} } : TRUE

\* uint64(n) for a small non-negative integer n.
U64Of(n) == With(n, LAMBDA k : Make64(LAMBDA d : IF d <= 4 THEN (k \div (256 ^ (d - 1))) % 256 ELSE 0))

\* TRUE when the value is below 2^31, so that ToNat gives it as an integer.
IsSmall(a) == a[8] = 0 /\ a[7] = 0 /\ a[6] = 0 /\ a[5] = 0 /\ a[4] < 128

ToNat(a) == a[1] + 256 * a[2] + 65536 * a[3] + 16777216 * a[4]

RECURSIVE Carry(_, _, _)
Carry(a, b, d) == IF d = 0 THEN 0 ELSE (a[d] + b[d] + Carry(a, b, d - 1)) \div 256

\* a + b modulo 2^64.
Add64(a, b) ==
    With2(a, b, LAMBDA x, y : Make64(LAMBDA d : (x[d] + y[d] + Carry(x, y, d - 1)) % 256))

RECURSIVE Borrow(_, _, _)
Borrow(a, b, d) == IF d = 0 THEN 0 ELSE IF a[d] - b[d] - Borrow(a, b, d - 1) < 0 THEN 1 ELSE 0

\* a - b modulo 2^64.
Sub64(a, b) ==
    With2(a, b, LAMBDA x, y : Make64(LAMBDA d : (x[d] - y[d] - Borrow(x, y, d - 1)) % 256))

\* Bitwise operations on bytes.
RECURSIVE ByteOr(_, _)
ByteOr(x, y) == IF x = 0 THEN y
                ELSE IF y = 0 THEN x
                ELSE (IF x % 2 = 1 \/ y % 2 = 1 THEN 1 ELSE 0) + 2 * ByteOr(x \div 2, y \div 2)

RECURSIVE ByteAnd(_, _)
ByteAnd(x, y) == IF x = 0 \/ y = 0 THEN 0
                 ELSE (IF x % 2 = 1 /\ y % 2 = 1 THEN 1 ELSE 0) + 2 * ByteAnd(x \div 2, y \div 2)

Or64(a, b) == With2(a, b, LAMBDA x, y : Make64(LAMBDA d : ByteOr(x[d], y[d])))
And64(a, b) == With2(a, b, LAMBDA x, y : Make64(LAMBDA d : ByteAnd(x[d], y[d])))

\* a << (8 * i) and a >> (8 * i), for 0 <= i < 8.
Shl64(a, i) == With(a, LAMBDA x : Make64(LAMBDA d : IF d - i >= 1 THEN x[d - i] ELSE 0))
Shr64(a, i) == With(a, LAMBDA x : Make64(LAMBDA d : IF d + i <= 8 THEN x[d + i] ELSE 0))

\* The index expressions from[x] and to[x] of a slice of length n: in range or panic.
InRange(a, n) == With(a, LAMBDA x : IsSmall(x) /\ ToNat(x) < n)

(***************************************************************************)
(* readBytes and writeBytes.  Both run their loop byte by byte; an index   *)
(* out of range panics there, with the bytes before it already written.    *)
(***************************************************************************)
RECURSIVE readLoop(_, _, _, _, _)
readLoop(from, start, bytes, i, val) ==
    IF i >= bytes THEN [ok |-> TRUE, val |-> val]
    ELSE With(Add64(start, U64Of(i)), LAMBDA at :
         IF ~InRange(at, MemSize) THEN [ok |-> FALSE, val |-> val]
         ELSE With(Or64(val, Shl64(U64Of(from[ToNat(at)]), i)),
                   LAMBDA v : readLoop(from, start, bytes, i + 1, v)))

\* A read loop that starts at i = 1.
readBytesSkippingFirst(from, start, bytes) ==
    With(start, LAMBDA st : readLoop(from, st, bytes, 1, Zero64))

readBytes(from, start, bytes) ==
    With(start, LAMBDA st : readLoop(from, st, bytes, 0, Zero64))

RECURSIVE writeLoop(_, _, _, _, _)
writeLoop(to, start, bytes, val, i) ==
    IF i >= bytes THEN [ok |-> TRUE, mem |-> to]
    ELSE With(Add64(start, U64Of(i)), LAMBDA at :
         IF ~InRange(at, MemSize) THEN [ok |-> FALSE, mem |-> to]
         ELSE With([to EXCEPT ![ToNat(at)] = And64(Shr64(val, i), U64Of(255))[1]],
                   LAMBDA t : writeLoop(t, start, bytes, val, i + 1)))

\* A write whose index wraps around the end of the memory instead of panicking.
RECURSIVE writeLoopWrapping(_, _, _, _, _)
writeLoopWrapping(to, start, bytes, val, i) ==
    IF i >= bytes THEN [ok |-> TRUE, mem |-> to]
    ELSE With(Add64(start, U64Of(i)), LAMBDA at :
         With([to EXCEPT ![IF InRange(at, MemSize) THEN ToNat(at) ELSE at[1] % MemSize] =
                              And64(Shr64(val, i), U64Of(255))[1]],
              LAMBDA t : writeLoopWrapping(t, start, bytes, val, i + 1)))

writeBytesWrapping(to, start, bytes, val) ==
    With2(start, val, LAMBDA st, v : writeLoopWrapping(to, st, bytes, v, 0))

writeBytes(to, start, bytes, val) ==
    With2(start, val, LAMBDA st, v : writeLoop(to, st, bytes, v, 0))

(***************************************************************************)
(* The register file: eighteen uint64 slots, indexed by encoding value.    *)
(***************************************************************************)
rax == 0
rcx == 1
rdx == 2
rbx == 3
rsp == 4
rbp == 5
rsi == 6
rdi == 7
r8 == 8
r15 == 15
rip == 16
rflags == 17

Registers == rax..rflags

\* &registerFile{} of newCPU: every slot zero.
registerFile == [r \in Registers |-> Zero64]

get(rf, r) == rf[r]

set(rf, r, v) == [rf EXCEPT ![r] = v]

(***************************************************************************)
(* One iteration of the for loop of cpu.loop, after the receive from       *)
(* c.tick.  The result is the new memory and register file together with   *)
(* what the loop does next: "next" (another iteration), "break" (the loop  *)
(* is left) or "panic" (the process dies).                                 *)
(***************************************************************************)
prefixBytes == {72, 102}   \* 0x48, 0x66

\* A prefix scan in which the first prefix byte of a run decides the width.
RECURSIVE prefixScanFirstWins(_, _, _, _, _)
prefixScanFirstWins(m, ip, inb1, widthPrefix, n) ==
    IF inb1 \notin prefixBytes
    THEN [ok |-> TRUE, ip |-> ip, inb1 |-> inb1, widthPrefix |-> widthPrefix, n |-> n]
    ELSE With2(IF n > 0 THEN widthPrefix ELSE IF inb1 = 72 THEN 64 ELSE 16,
               Add64(ip, U64Of(1)), LAMBDA w, ip2 :
            IF ~InRange(ip2, MemSize)
            THEN [ok |-> FALSE, ip |-> ip2, inb1 |-> inb1, widthPrefix |-> w, n |-> n + 1]
            ELSE prefixScanFirstWins(m, ip2, m[ToNat(ip2)], w, n + 1))

\* The inner for loop: n counts the prefix bytes passed.
RECURSIVE prefixScan(_, _, _, _, _)
prefixScan(m, ip, inb1, widthPrefix, n) ==
    IF inb1 \notin prefixBytes
    THEN [ok |-> TRUE, ip |-> ip, inb1 |-> inb1, widthPrefix |-> widthPrefix, n |-> n]
    ELSE IF inb1 # 72 /\ inb1 # 102
    THEN [ok |-> FALSE, ip |-> ip, inb1 |-> inb1, widthPrefix |-> widthPrefix, n |-> n]
    ELSE With2(IF inb1 = 72 THEN 64 ELSE 16, Add64(ip, U64Of(1)), LAMBDA w, ip2 :
            IF ~InRange(ip2, MemSize)
            THEN [ok |-> FALSE, ip |-> ip2, inb1 |-> inb1, widthPrefix |-> w, n |-> n + 1]
            ELSE prefixScan(m, ip2, m[ToNat(ip2)], w, n + 1))

\* Fetch and prefix scan: the opcode byte inb1, the ip that points at it and the width.
decode(m, rf) ==
    With(get(rf, rip), LAMBDA ip :
        IF ~InRange(ip, MemSize)
        THEN [ok |-> FALSE, ip |-> ip, inb1 |-> 0, widthPrefix |-> 32, n |-> 0]
        ELSE prefixScan(m, ip, m[ToNat(ip)], 32, 0))

Outcome(out, m, rf) == [out |-> out, mem |-> m, regfile |-> rf]

\* An advance that forgets the + 1.
advanceWithoutIncrement(m, rf, ip) == Outcome("next", m, set(rf, rip, ip))

\* The generic advance at the end of the loop body: c.regfile.set(rip, ip+1).
advance(m, rf, ip) == Outcome("next", m, set(rf, rip, Add64(ip, U64Of(1))))

\* A push that stores at the stack pointer instead of below it.
pushAtSp(m, rf, ip, inb1) ==
    With2(get(rf, inb1 - 80), get(rf, rsp), LAMBDA regvalue, sp :
        With(writeBytes(m, sp, 8, regvalue), LAMBDA w :
            IF ~w.ok THEN Outcome("panic", w.mem, rf)
            ELSE Outcome("next", w.mem,
                         set(set(rf, rsp, Sub64(sp, U64Of(8))), rip, Add64(ip, U64Of(1))))))

\* A push that decrements the stack pointer before it reads the source register.
pushAfterDecrement(m, rf, ip, inb1) ==
    With2(get(rf, rsp), set(rf, rsp, Sub64(get(rf, rsp), U64Of(8))), LAMBDA sp, rf2 :
        With(writeBytes(m, Sub64(sp, U64Of(8)), 8, get(rf2, inb1 - 80)), LAMBDA w :
            IF ~w.ok THEN Outcome("panic", w.mem, rf)
            ELSE advance(w.mem, rf2, ip)))

push(m, rf, ip, inb1) ==
    With2(get(rf, inb1 - 80), get(rf, rsp), LAMBDA regvalue, sp :
        With(writeBytes(m, Sub64(sp, U64Of(8)), 8, regvalue), LAMBDA w :
            IF ~w.ok THEN Outcome("panic", w.mem, rf)
            ELSE advance(w.mem, set(rf, rsp, Sub64(sp, U64Of(8))), ip)))

pop(m, rf, ip, inb1) ==
    With2(inb1 - 88, get(rf, rsp), LAMBDA lhs, sp :
        With(readBytes(m, sp, 8), LAMBDA r :
            IF ~r.ok THEN Outcome("panic", m, rf)
            ELSE advance(m, set(set(rf, lhs, r.val), rsp, Add64(sp, U64Of(8))), ip)))

\* A mov whose destination is one of r8..r15.
movRegRegExtended(m, rf, ip) ==
    With(Add64(ip, U64Of(1)), LAMBDA ip2 :
        IF ~InRange(ip2, MemSize) THEN Outcome("panic", m, rf)
        ELSE With(m[ToNat(ip2)], LAMBDA inb2 :
                 With2(ByteAnd(inb2, 56) \div 8, ByteAnd(inb2, 7) + 8, LAMBDA rhs, lhs :
                     advance(m, set(rf, lhs, get(rf, rhs)), ip2))))

\* A mov that takes the destination from bits 3-5 and the source from bits 0-2.
movRegRegSwapped(m, rf, ip) ==
    With(Add64(ip, U64Of(1)), LAMBDA ip2 :
        IF ~InRange(ip2, MemSize) THEN Outcome("panic", m, rf)
        ELSE With(m[ToNat(ip2)], LAMBDA inb2 :
                 With2(ByteAnd(inb2, 7), ByteAnd(inb2, 56) \div 8, LAMBDA rhs, lhs :
                     advance(m, set(rf, lhs, get(rf, rhs)), ip2))))

movRegReg(m, rf, ip) ==
    With(Add64(ip, U64Of(1)), LAMBDA ip2 :
        IF ~InRange(ip2, MemSize) THEN Outcome("panic", m, rf)
        ELSE With(m[ToNat(ip2)], LAMBDA inb2 :
                 With2(ByteAnd(inb2, 56) \div 8, ByteAnd(inb2, 7), LAMBDA rhs, lhs :
                     advance(m, set(rf, lhs, get(rf, rhs)), ip2))))

\* A mov R, imm that writes only the low widthPrefix/8 bytes of the register.
movRegImmMerging(m, rf, ip, inb1, widthPrefix) ==
    With2(inb1 - 184, readBytes(m, Add64(ip, U64Of(1)), widthPrefix \div 8), LAMBDA lreg, r :
        IF ~r.ok THEN Outcome("panic", m, rf)
        ELSE Outcome("next", m,
                     set(set(rf, lreg, Make64(LAMBDA d : IF d <= widthPrefix \div 8 THEN r.val[d]
                                                        ELSE get(rf, lreg)[d])),
                         rip, Add64(ip, U64Of(widthPrefix \div 8 + 1)))))

movRegImm(m, rf, ip, inb1, widthPrefix) ==
    With2(inb1 - 184, readBytes(m, Add64(ip, U64Of(1)), widthPrefix \div 8), LAMBDA lreg, r :
        IF ~r.ok THEN Outcome("panic", m, rf)
        ELSE advance(m, set(rf, lreg, r.val), Add64(ip, U64Of(widthPrefix \div 8))))

\* A ret that falls through to the generic advance.
retAdvancing(m, rf) ==
    With(get(rf, rsp), LAMBDA sp :
        With(readBytes(m, sp, 8), LAMBDA r :
            IF ~r.ok THEN Outcome("panic", m, rf)
            ELSE Outcome("next", m, set(set(rf, rsp, Add64(sp, U64Of(8))), rip,
                                        Add64(r.val, U64Of(1))))))

ret(m, rf) ==
    With(get(rf, rsp), LAMBDA sp :
        With(readBytes(m, sp, 8), LAMBDA r :
            IF ~r.ok THEN Outcome("panic", m, rf)
            ELSE Outcome("next", m, set(set(rf, rsp, Add64(sp, U64Of(8))), rip, r.val))))

\* A decoder that steps over a byte it does not know.
executeSkippingUnknown(m, rf, ip, inb1, widthPrefix) ==
    IF inb1 >= 80 /\ inb1 < 88 THEN push(m, rf, ip, inb1)
    ELSE IF inb1 >= 88 /\ inb1 < 96 THEN pop(m, rf, ip, inb1)
    ELSE IF inb1 = 137 THEN movRegReg(m, rf, ip)
    ELSE IF inb1 >= 184 /\ inb1 < 192 THEN movRegImm(m, rf, ip, inb1, widthPrefix)
    ELSE IF inb1 = 195 THEN ret(m, rf)
    ELSE advance(m, rf, ip)

\* The if/else-if chain over the opcode byte.
execute(m, rf, ip, inb1, widthPrefix) ==
    IF inb1 >= 80 /\ inb1 < 88 THEN push(m, rf, ip, inb1)
    ELSE IF inb1 >= 88 /\ inb1 < 96 THEN pop(m, rf, ip, inb1)
    ELSE IF inb1 = 137 THEN movRegReg(m, rf, ip)
    ELSE IF inb1 >= 184 /\ inb1 < 192 THEN movRegImm(m, rf, ip, inb1, widthPrefix)
    ELSE IF inb1 = 195 THEN ret(m, rf)
    ELSE Outcome("panic", m, rf)

\* A loop body that makes the sentinel test at its end, after the instruction.
loopBodyTestingAtEnd(m, rf, entryReturnAddress) ==
    With(decode(m, rf), LAMBDA s :
        IF ~s.ok THEN Outcome("panic", m, rf)
        ELSE With(execute(m, rf, s.ip, s.inb1, s.widthPrefix), LAMBDA r :
                 IF r.out = "next" /\ get(r.regfile, rip) = entryReturnAddress
                 THEN Outcome("break", r.mem, r.regfile) ELSE r))

loopBody(m, rf, entryReturnAddress) ==
    IF get(rf, rip) = entryReturnAddress THEN Outcome("break", m, rf)
    ELSE With(decode(m, rf), LAMBDA s :
             IF ~s.ok THEN Outcome("panic", m, rf)
             ELSE execute(m, rf, s.ip, s.inb1, s.widthPrefix))

(***************************************************************************)
(* cpu.run up to the call of c.loop: the image is copied in, rip is set to *)
(* the entry point, the sentinel is written at len(c.mem)-8 and rsp is set *)
(* there.  The slice expression c.mem[start:start+len(bin)] panics when    *)
(* the image does not fit.                                                 *)
(***************************************************************************)
initialStackPointer == U64Of(MemSize - 8)

copy(m, startAddress, bin) ==
    [a \in 0..(MemSize - 1) |->
        IF a >= startAddress /\ a < startAddress + Len(bin)
        THEN bin[a - startAddress + 1] ELSE m[a]]

run(m, rf, p) ==
    IF p.startAddress + Len(p.bin) > MemSize THEN Outcome("panic", m, rf)
    ELSE With2(copy(m, p.startAddress, p.bin), set(rf, rip, U64Of(p.entryPoint)), LAMBDA m1, rf1 :
             With(writeBytes(m1, initialStackPointer, 8, initialStackPointer), LAMBDA w :
                 Outcome("next", w.mem, set(rf1, rsp, initialStackPointer))))

\* An exit status taken from the wrong register.
exitCodeOfRcx(rf) == get(rf, rcx)[1]

\* The exit status of a Go process that dies of a panic.
panicStatus == 2

\* os.Exit(int(rax)): the status the parent process sees is the low byte.
exitCode(rf) == get(rf, rax)[1]

(***************************************************************************)
(* The channel c.tick = make(chan bool, 1), held as the number of buffered *)
(* values.                                                                 *)
(***************************************************************************)
tickCapacity == 1

\* A send that also completes when the buffer is full (a channel of capacity 2).
canSendWhenFull(t) == t <= tickCapacity

\* c.tick <- true completes only when the buffer has room.
canSend(t) == t < tickCapacity

\* A loop that does not wait for the gate.
canReceiveAlways(t) == TRUE

\* A receive that needs more values than the buffer holds.
canReceiveAboveCapacity(t) == t > tickCapacity

\* <-c.tick completes only when a value is buffered.
canReceive(t) == t > 0

(***************************************************************************)
(* The process images the model runs: a load address, an entry point and   *)
(* the bytes.  readELF finds them in the file and returns an error, which  *)
(* main turns into a panic, when the entry point or the load address it    *)
(* found is 0.                                                             *)
(***************************************************************************)
Image(start, entry, bin) == [startAddress |-> start, entryPoint |-> entry, bin |-> bin]

\* A *process that is nil.
nilProcess == Image(0, 0, <<>>)

\* The two tests of readELF on what it found in the file.
readELF(file) ==
    IF file.entryPoint = 0 THEN [ok |-> FALSE, proc |-> nilProcess]
    ELSE IF file.startAddress = 0 THEN [ok |-> FALSE, proc |-> nilProcess]
    ELSE [ok |-> TRUE, proc |-> file]

GPR == rax..rdi

\* mov R, imm in its three widths; the immediates have their top bits set.
MovImm32(R) == <<184 + R, 16, 0, 0, 0>>
MovImm32High(R) == <<184 + R, 239, 205, 171, 137>>
MovImm64(R) == <<72, 184 + R, 241, 242, 243, 244, 245, 246, 247, 248>>
MovImm16(R) == <<102, 184 + R, 52, 146>>

PushOps == { <<80 + R>> : R \in GPR }
PopOps == { <<88 + R>> : R \in GPR }
MovImmOps == { MovImm32(R) : R \in GPR } \cup { MovImm32High(R) : R \in GPR }
                 \cup { MovImm64(R) : R \in GPR } \cup { MovImm16(R) : R \in GPR }
                 \cup { <<72, 102, 184, 52, 146>>, <<102, 72, 187, 1, 2, 3, 4, 5, 6, 7, 8>> }
MovRegOps == { <<137, b>> : b \in {1, 8, 196, 216, 35, 99, 231} }
                 \cup { <<137, 64 * mod + 8 * src + dst>> :
                            mod \in 0..3, src \in {rax, rbx, rsp}, dst \in {rcx, rbx, rsp} }
                 \cup { <<72, 137, 216>>, <<102, 137, 216>> }
FaultOps == { <<15>>, <<72, 15>>, <<102, 72, 15>>, <<0>>, <<79>>, <<96>>, <<136>>,
              <<183>>, <<192>>, <<194>>, <<196>>, <<255>> }

\* Instructions that give registers and the stack pointer values to work on.
SetupOps == { MovImm64(rax), MovImm64(rbx), MovImm32(rsp),
              <<184 + rsp, 4, 0, 0, 0>>, <<184 + rsp, MemSize - 4, 0, 0, 0>>,
              <<184 + rsp, MemSize + 4, 0, 0, 0>> }
AllOps == PushOps \cup PopOps \cup MovImmOps \cup MovRegOps \cup FaultOps \cup {<<195>>}

\* The images readELF returns: load address and entry point are not 0.
Programs ==
    \* a lone ret, at every load address below the sentinel
    { Image(a, a, <<195>>) : a \in 1..(MemSize - 9) }
    \* mov eax, 5; ret
    \cup { Image(1, 1, <<184, 5, 0, 0, 0, 195>>) }
    \* one instruction, then ret
    \cup { Image(1, 1, op \o <<195>>) : op \in AllOps }
    \* a setup instruction, one instruction, then ret
    \cup { Image(1, 1, s \o op \o <<195>>) : s \in SetupOps, op \in AllOps }
    \* push R; pop R; ret
    \cup { Image(1, 1, <<80 + R, 88 + R, 195>>) : R \in GPR }
    \* mov R, imm; push R; pop R; ret
    \cup { Image(2, 2, MovImm64(R) \o <<80 + R, 88 + R, 195>>) : R \in GPR }
    \cup { Image(2, 2, MovImm32(R) \o <<80 + R, 88 + R, 195>>) : R \in GPR }
    \* mov eax, 6; push rax; ret at address 1: the ret goes back to the push for ever
    \cup { Image(1, 1, <<184, 6, 0, 0, 0, 80, 195>>) }
    \* an entry point that is the sentinel, and an instruction that ends at it
    \cup { Image(1, MemSize - 8, <<195>>), Image(MemSize - 9, MemSize - 9, <<80>>) }
    \* an entry point away from the load address, an image that runs into the
    \* stack, and an image that does not fit the memory
    \cup { Image(3, 5, <<15, 15, 184, 7, 0, 0, 0, 195>>),
           Image(MemSize - 10, MemSize - 10, <<88, 195, 24, 0, 0, 0, 0, 0, 0, 0>>),
           Image(MemSize - 2, MemSize - 2, <<88, 195, 80>>) }
    \* code pushed over the sentinel and run into: a mov eax, imm32 whose
    \* immediate ends after the last byte of the memory
    \cup { Image(MemSize - 24, MemSize - 24,
                 <<72, 184, 192, 137, 192, 137, 192, 184, 1, 2>>
                 \o <<102, 184 + rsp, MemSize, 0>> \o <<80, 137>>) }

\* The images run under the single-step controller.
DebugPrograms ==
    { Image(1, 1, <<184, 5, 0, 0, 0, 195>>),
      Image(1, 1, <<195>>),
      Image(1, 1, MovImm64(rbx) \o <<80 + rbx, 88 + rcx, 137, 216, 195>>),
      Image(1, 1, <<184, 6, 0, 0, 0, 80, 195>>),
      Image(1, 1, <<102, 72, 15>>),
      Image(1, 1, <<88, 88, 195>>),
      Image(1, 1, <<184, MemSize + 8, 0, 0, 0, 184, MemSize - 7, 0, 0, 0, 195>>),
      Image(1, 1, <<88 + rsp, 195>>),
      Image(MemSize - 2, MemSize - 2, <<88, 195, 80>>) }

\* Files in which readELF finds 0 for the entry point or for the load address.
RejectedFiles ==
    { Image(0, 0, <<184, 5, 0, 0, 0, 195>>),
      Image(0, 0, <<195>>),
      Image(0, MemSize - 8, <<195>>),
      Image(3, 0, <<195>>) }

(***************************************************************************)
(* The state after readELF, newCPU and the start of main's two goroutines. *)
(* Without a binary on the command line main ends in log.Fatal, before     *)
(* readELF ("nobinary").  elf is what readELF finds in the file; when it   *)
(* returns an error main panics before newCPU, and the process is over     *)
(* ("loaderror").                                                          *)
(***************************************************************************)
\* The exit status of log.Fatal.
fatalStatus == 1

\* The locals parts and from of repl, outside the memory command.
noLocals == [parts |-> <<>>, from |-> Zero64]

Init ==
    /\ \/ \* len(os.Args) < 2
          /\ debug = FALSE
          /\ elf = nilProcess
          /\ proc = nilProcess
          /\ epc = "nobinary"
          /\ exitStatus = fatalStatus
       \/ /\ debug \in BOOLEAN
          /\ elf \in (IF debug THEN DebugPrograms ELSE Programs) \cup RejectedFiles
          /\ \E r \in {readELF(elf)} :
              /\ proc = r.proc
              /\ epc = IF r.ok THEN "boot" ELSE "loaderror"
              /\ exitStatus = IF r.ok THEN -1 ELSE panicStatus
    /\ locals = noLocals
    /\ mem = [a \in 0..(MemSize - 1) |-> 0]
    /\ regfile = registerFile
    /\ tick = 0
    /\ cpc = "prompt"
    /\ intFormat = "%d"
    /\ obs = [cmd |-> "none", tick |-> 0, epc |-> "boot"]
    /\ produced = 0
    /\ consumed = 0
    /\ executed = 0
    /\ hist = <<>>
    /\ raxAtHalt = <<>>

\* The process is gone once os.Exit was called, a goroutine panicked or main returned.
\* exitStatus is -1 while it runs; a panic ends it with the status of the Go
\* runtime, the return of main with 0.
Alive == epc \notin {"exited", "panicked", "loaderror", "nobinary"} /\ cpc \notin {"eof", "panicked"}

(***************************************************************************)
(* The engine goroutine: go cpu.run(proc).                                 *)
(***************************************************************************)
\* The rax the exit status will come from: the one held when rip becomes the sentinel.
HaltRax(rf, old) == IF get(rf, rip) = initialStackPointer THEN get(rf, rax) ELSE old

Bootstrap ==
    /\ Alive /\ epc = "boot"
    /\ \E r \in {run(mem, regfile, proc)} :
        /\ mem' = r.mem
        /\ regfile' = r.regfile
        /\ epc' = IF r.out = "panic" THEN "panicked" ELSE "wait"
        /\ exitStatus' = IF r.out = "panic" THEN panicStatus ELSE exitStatus
        /\ raxAtHalt' = IF r.out = "panic" THEN raxAtHalt ELSE HaltRax(r.regfile, raxAtHalt)
    /\ UNCHANGED <<tick, proc, elf, locals, debug, cpc, intFormat, obs, produced, consumed, executed, hist>>

\* <-c.tick
Receive ==
    /\ Alive /\ epc = "wait"
    /\ canReceive(tick)
    /\ tick' = tick - 1
    /\ consumed' = consumed + 1
    /\ epc' = "fetch"
    /\ UNCHANGED <<mem, regfile, exitStatus, proc, elf, locals, debug, cpc, intFormat, obs, produced,
                   executed, hist, raxAtHalt>>

\* The rest of the iteration: the sentinel test, fetch, prefix scan, execute, advance.
Iterate ==
    /\ Alive /\ epc = "fetch"
    /\ \E r \in {loopBody(mem, regfile, initialStackPointer)}, s \in {decode(mem, regfile)} :
        /\ mem' = r.mem
        /\ regfile' = r.regfile
        /\ epc' = CASE r.out = "next" -> "wait"
                    [] r.out = "break" -> "halt"
                    [] OTHER -> "panicked"
        /\ executed' = IF r.out = "next" THEN executed + 1 ELSE executed
        /\ hist' = IF r.out = "next"
                   THEN <<[ip |-> get(regfile, rip), op |-> s.inb1, n |-> s.n,
                           widthPrefix |-> s.widthPrefix, regs |-> regfile]>>
                        \o SubSeq(hist, 1, IF Len(hist) > 0 THEN 1 ELSE 0)
                   ELSE hist
        /\ exitStatus' = IF r.out = "panic" THEN panicStatus ELSE exitStatus
        /\ raxAtHalt' = IF r.out = "next" THEN HaltRax(r.regfile, raxAtHalt) ELSE raxAtHalt
    /\ UNCHANGED <<tick, proc, elf, locals, debug, cpc, intFormat, obs, produced, consumed>>

\* os.Exit(int(c.regfile.get(rax))) after the loop was left.
Exit ==
    /\ Alive /\ epc = "halt"
    /\ exitStatus' = exitCode(regfile)
    /\ epc' = "exited"
    /\ UNCHANGED <<mem, regfile, tick, proc, elf, locals, debug, cpc, intFormat, obs, produced, consumed,
                   executed, hist, raxAtHalt>>

Engine == Bootstrap \/ Receive \/ Iterate \/ Exit

(***************************************************************************)
(* The free-run controller: for { cpu.tick <- true }.                      *)
(***************************************************************************)
FreeRun ==
    /\ Alive /\ ~debug
    /\ produced < MaxSteps
    /\ canSend(tick)
    /\ tick' = tick + 1
    /\ produced' = produced + 1
    /\ UNCHANGED <<mem, regfile, epc, exitStatus, proc, elf, locals, debug, cpc, intFormat, obs, consumed,
                   executed, hist, raxAtHalt>>

(***************************************************************************)
(* cpu.resolveDebuggerValue.  A token is a sequence of one-character       *)
(* strings.  The result is [ok, val]: ok is FALSE when strconv.ParseUint   *)
(* returns an error.                                                       *)
(***************************************************************************)
registerMap ==
    [r \in Registers |->
        CASE r = rax -> <<"r", "a", "x">>
          [] r = rcx -> <<"r", "c", "x">>
          [] r = rdx -> <<"r", "d", "x">>
          [] r = rbx -> <<"r", "b", "x">>
          [] r = rsp -> <<"r", "s", "p">>
          [] r = rbp -> <<"r", "b", "p">>
          [] r = rsi -> <<"r", "s", "i">>
          [] r = rdi -> <<"r", "d", "i">>
          [] r = 8 -> <<"r", "8">>
          [] r = 9 -> <<"r", "9">>
          [] r = 10 -> <<"r", "1", "0">>
          [] r = 11 -> <<"r", "1", "1">>
          [] r = 12 -> <<"r", "1", "2">>
          [] r = 13 -> <<"r", "1", "3">>
          [] r = 14 -> <<"r", "1", "4">>
          [] r = 15 -> <<"r", "1", "5">>
          [] r = rip -> <<"r", "i", "p">>
          [] r = rflags -> <<"r", "f", "l", "a", "g", "s">>]

LowerChars == <<"0", "1", "2", "3", "4", "5", "6", "7", "8", "9",
                "a", "b", "c", "d", "e", "f", "g", "h", "i", "j", "k", "l", "m",
                "n", "o", "p", "q", "r", "s", "t", "u", "v", "w", "x", "y", "z">>
UpperChars == <<"0", "1", "2", "3", "4", "5", "6", "7", "8", "9",
                "A", "B", "C", "D", "E", "F", "G", "H", "I", "J", "K", "L", "M",
                "N", "O", "P", "Q", "R", "S", "T", "U", "V", "W", "X", "Y", "Z">>

\* The value of a digit character in strconv.ParseUint, or 36 for any other character.
digitValue(c) ==
    IF \E k \in 1..36 : LowerChars[k] = c \/ UpperChars[k] = c
    THEN (CHOOSE k \in 1..36 : LowerChars[k] = c \/ UpperChars[k] = c) - 1
    ELSE 36

\* a * base + d with the carry out of the top digit, for a small base and digit d.
RECURSIVE MulCarry(_, _, _, _)
MulCarry(a, base, d0, d) ==
    IF d = 0 THEN d0 ELSE (a[d] * base + MulCarry(a, base, d0, d - 1)) \div 256

MulAdd64(a, base, d0) ==
    With(a, LAMBDA x :
        [val |-> Make64(LAMBDA d : (x[d] * base + MulCarry(x, base, d0, d - 1)) % 256),
         over |-> MulCarry(x, base, d0, 8) > 0])

\* strconv.ParseUint(str, base, 64) for base 10 and 16.
RECURSIVE parseLoop(_, _, _, _)
parseLoop(str, base, i, n) ==
    IF i > Len(str) THEN [ok |-> TRUE, val |-> n]
    ELSE With(digitValue(str[i]), LAMBDA d :
         IF d >= base THEN [ok |-> FALSE, val |-> Zero64]
         ELSE With(MulAdd64(n, base, d), LAMBDA r :
                  IF r.over THEN [ok |-> FALSE, val |-> Make64(LAMBDA k : 255)]
                  ELSE parseLoop(str, base, i + 1, r.val)))

ParseUint(str, base) ==
    IF Len(str) = 0 THEN [ok |-> FALSE, val |-> Zero64] ELSE parseLoop(str, base, 1, Zero64)

\* A resolver without the 0x tier: everything that is no register name is decimal.
resolveWithoutHexTier(rf, dval) ==
    IF \E reg \in Registers : registerMap[reg] = dval
    THEN [ok |-> TRUE, val |-> get(rf, CHOOSE reg \in Registers : registerMap[reg] = dval)]
    ELSE ParseUint(dval, 10)

resolveDebuggerValue(rf, dval) ==
    IF \E reg \in Registers : registerMap[reg] = dval
    THEN [ok |-> TRUE, val |-> get(rf, CHOOSE reg \in Registers : registerMap[reg] = dval)]
    ELSE IF Len(dval) > 2 /\ (SubSeq(dval, 1, 2) = <<"0", "x">> \/ SubSeq(dval, 1, 2) = <<"0", "X">>)
    THEN ParseUint(SubSeq(dval, 3, Len(dval)), 16)
    ELSE ParseUint(dval, 10)

(***************************************************************************)
(* The single-step controller: repl.  One action per case of its switch;   *)
(* each is the whole handling of one input line, except the memory command,*)
(* whose two register reads are separate steps because the engine          *)
(* goroutine runs between them (a 64-bit register is read as one word).    *)
(* obs records the last                                                    *)
(* command that read a register or a memory byte, with the gate and the    *)
(* position of the engine at that moment.                                  *)
(***************************************************************************)
\* The argument lists (parts[1:]) the memory command is given.
MemoryArgs ==
    { <<>>,
      <<<<"r", "s", "p">>>>,
      <<<<"0">>, <<"5">>, <<"1">>>>,
      <<<<"0", "x", "0">>, <<"0", "x", "5">>>>,
      <<<<"0">>, <<"0">>>>,
      <<<<"r", "s", "p">>, <<"8">>>>,
      <<<<"r", "s", "p">>, <<"9">>>>,
      <<<<"r", "i", "p">>, <<"r", "a", "x">>>>,
      <<<<"0", "X", "1", "f">>, <<"1">>>>,
      <<<<"1", "6">>, <<"1", "8", "4", "4", "6", "7", "4", "4", "0", "7", "3",
                                 "7", "0", "9", "5", "5", "1", "6", "1", "5">>>>,
      <<<<"z", "z">>, <<"1">>>>,
      <<<<"1">>, <<"0", "x">>>>,
      <<<<"r", "a", "x">>, <<"-", "1">>>> }

IsRegisterName(t) == \E reg \in Registers : registerMap[reg] = t

\* The slice expression c.mem[from:from+to] of line 315: "dump" when it is in
\* range (the bytes are printed), "panic" when it is not.
sliceMemory(from, to) ==
    With(Add64(from, to), LAMBDA high :
        IF InRange(high, MemSize + 1) /\ IsSmall(from) /\ ToNat(from) <= ToNat(high)
        THEN "dump" ELSE "panic")

\* The register file right after the first regfile.set of a pop (line 215),
\* before the stack pointer and rip are set.
popLoaded(m, rf) ==
    With(decode(m, rf), LAMBDA s :
        IF get(rf, rip) # initialStackPointer /\ s.ok /\ s.inb1 >= 88 /\ s.inb1 < 96
        THEN With(readBytes(m, get(rf, rsp), 8), LAMBDA r :
                 IF r.ok THEN {set(rf, s.inb1 - 88, r.val)} ELSE {})
        ELSE {})

\* repl reads c.regfile with no synchronisation.  While the engine goroutine is
\* inside cpu.run's bootstrap or inside an iteration of cpu.loop, a read of a
\* register gives the value before or after any of the regfile.set calls of
\* that step: these are the register files such a read can be made on.
raceViews ==
    {regfile}
    \cup (IF ~Alive THEN {}
          ELSE IF epc = "boot" THEN {run(mem, regfile, proc).regfile}
          ELSE IF epc = "fetch"
          THEN {loopBody(mem, regfile, initialStackPointer).regfile} \cup popLoaded(mem, regfile)
          ELSE {})

Observe(cmd) == [cmd |-> cmd, tick |-> tick, epc |-> epc]

AtPrompt == Alive /\ debug /\ cpc = "prompt"

\* case "m", "memory", lines 297-307: the argument count is tested and parts[1]
\* is resolved; the usage message is printed when either fails.
ReplMemory ==
    /\ AtPrompt
    /\ \E views \in {raceViews}, args \in MemoryArgs :
        IF Len(args) # 2 THEN UNCHANGED <<cpc, locals, obs>>
        ELSE \E rf \in views :
             \E from \in {resolveDebuggerValue(rf, args[1])} :
                /\ cpc' = IF from.ok THEN "memory" ELSE "prompt"
                /\ locals' = IF from.ok THEN [parts |-> args, from |-> from.val] ELSE locals
                /\ obs' = IF IsRegisterName(args[1]) THEN Observe("memory") ELSE obs
    /\ UNCHANGED <<mem, regfile, tick, epc, exitStatus, proc, elf, debug, intFormat, produced,
                   consumed, executed, hist, raxAtHalt>>

\* lines 309-315: parts[2] is resolved, possibly after the engine has moved on,
\* and the slice is taken: the usage message, the dump, or a panic.
ReplMemoryTo ==
    /\ Alive /\ debug /\ cpc = "memory"
    /\ \E rf \in raceViews :
        \E to \in {resolveDebuggerValue(rf, locals.parts[2])} :
        \E result \in {IF to.ok THEN sliceMemory(locals.from, to.val) ELSE "usage"} :
            /\ cpc' = IF result = "panic" THEN "panicked" ELSE "prompt"
            /\ exitStatus' = IF result = "panic" THEN panicStatus ELSE exitStatus
            /\ obs' = IF IsRegisterName(locals.parts[2]) \/ (result = "dump" /\ to.val # Zero64)
                      THEN Observe("memory") ELSE obs
    /\ locals' = noLocals
    /\ UNCHANGED <<mem, regfile, tick, epc, proc, elf, debug, intFormat, produced, consumed,
                   executed, hist, raxAtHalt>>

\* case "r", "registers": every register, or the one the filter names, is printed.
RegisterFilters == { <<>>, <<"r", "a", "x">>, <<"r", "1", "5">>, <<"z", "z">> }

ReplRegisters ==
    /\ AtPrompt
    /\ \E filter \in RegisterFilters :
        obs' = IF filter = <<>> \/ IsRegisterName(filter) THEN Observe("registers") ELSE obs
    /\ UNCHANGED <<mem, regfile, tick, epc, exitStatus, proc, elf, locals, debug, cpc, intFormat,
                   produced, consumed, executed, hist, raxAtHalt>>

\* case "d", "decimal"
ReplDecimal ==
    /\ AtPrompt
    /\ intFormat' = IF intFormat = "%d" THEN "0x%x" ELSE "%d"
    /\ UNCHANGED <<mem, regfile, tick, epc, exitStatus, proc, elf, locals, debug, cpc, obs, produced,
                   consumed, executed, hist, raxAtHalt>>

\* case "h", "help", and every line that matches no case: nothing but output.
ReplHelp ==
    /\ AtPrompt
    /\ UNCHANGED vars

\* case "s", "step": c.tick <- true
ReplStep ==
    /\ AtPrompt
    /\ produced < MaxSteps
    /\ canSend(tick)
    /\ tick' = tick + 1
    /\ produced' = produced + 1
    /\ UNCHANGED <<mem, regfile, epc, exitStatus, proc, elf, locals, debug, cpc, intFormat, obs, consumed,
                   executed, hist, raxAtHalt>>

\* scanner.Scan() returns false: repl returns, main returns, the process ends.
ReplEOF ==
    /\ AtPrompt
    /\ cpc' = "eof"
    /\ exitStatus' = 0
    /\ UNCHANGED <<mem, regfile, tick, epc, proc, elf, locals, debug, intFormat, obs, produced, consumed,
                   executed, hist, raxAtHalt>>

Repl == ReplMemory \/ ReplMemoryTo \/ ReplRegisters \/ ReplDecimal \/ ReplHelp \/ ReplStep \/ ReplEOF

Next == Engine \/ FreeRun \/ Repl

Spec == Init /\ [][Next]_vars

(***************************************************************************)
(* writeBytes and readBytes on their own: one write to a memory, then the  *)
(* read of the same range.  hist holds the two calls: their arguments, the *)
(* memory before the write and the results.                                *)
(***************************************************************************)
Widths == {1, 2, 4, 8}

MemStarts == { U64Of(a) : a \in 0..(MemSize + 1) } \cup { Sub64(Zero64, U64Of(3)) }

MemValues == { Zero64, U64Of(255), U64Of(258), U64Of(16909060), U64Of(2147483647),
               <<241, 242, 243, 244, 245, 246, 247, 248>>,
               <<255, 255, 255, 255, 255, 255, 255, 255>>,
               <<0, 0, 0, 0, 0, 0, 0, 128>> }

InitMem ==
    /\ debug = FALSE
    /\ proc = Image(1, 1, <<>>)
    /\ elf = proc
    /\ locals = noLocals
    /\ mem \in { [a \in 0..(MemSize - 1) |-> 0], [a \in 0..(MemSize - 1) |-> (7 * a + 3) % 256] }
    /\ regfile = registerFile
    /\ tick = 0
    /\ epc = "boot"
    /\ exitStatus = -1
    /\ cpc = "prompt"
    /\ intFormat = "%d"
    /\ obs = [cmd |-> "none", tick |-> 0, epc |-> "boot"]
    /\ produced = 0
    /\ consumed = 0
    /\ executed = 0
    /\ hist = <<>>
    /\ raxAtHalt = <<>>

WriteCall ==
    /\ hist = <<>>
    /\ \E start \in MemStarts, bytes \in Widths, val \in MemValues :
        \E w \in {writeBytes(mem, start, bytes, val)} :
            /\ mem' = w.mem
            /\ hist' = <<[op |-> "write", start |-> start, bytes |-> bytes, val |-> val,
                          before |-> mem, ok |-> w.ok]>>
    /\ UNCHANGED <<regfile, tick, epc, exitStatus, proc, elf, locals, debug, cpc, intFormat, obs,
                   produced, consumed, executed, raxAtHalt>>

ReadCall ==
    /\ Len(hist) = 1 /\ hist[1].op = "write"
    /\ \E r \in {readBytes(mem, hist[1].start, hist[1].bytes)} :
        hist' = <<[op |-> "read", start |-> hist[1].start, bytes |-> hist[1].bytes,
                   val |-> r.val, ok |-> r.ok]>> \o hist
    /\ UNCHANGED <<mem, regfile, tick, epc, exitStatus, proc, elf, locals, debug, cpc, intFormat, obs,
                   produced, consumed, executed, raxAtHalt>>

NextMem == WriteCall \/ ReadCall

SpecMem == InitMem /\ [][NextMem]_vars

(***************************************************************************)
(* cpu.resolveDebuggerValue on its own: one call with a token, on a        *)
(* register file of a running engine.  hist holds the call and its result. *)
(***************************************************************************)
ResolveTokens ==
    { registerMap[reg] : reg \in Registers }
    \cup { <<"0", "x", "1", "0">>, <<"1", "6">>, <<"0", "X", "1", "0">>, <<"0", "x", "1", "f">>,
           <<"0", "X", "f", "F">>, <<"0", "x", "A", "b", "c", "D", "e", "9">>, <<"0">>,
           <<"0", "0", "7">>, <<"0", "x", "0">>, <<"4", "2", "9", "4", "9", "6", "7">>,
           <<"0", "x">>, <<"0", "X">>, <<"x", "1", "0">>, <<>>, <<"z", "z">>, <<"-", "1">>,
           <<"+", "1", "6">>, <<"1", "6", "a">>, <<"0", "x", "g">>, <<"0", "x", "1", "_", "0">>,
           <<"1", "_", "0">>, <<"R", "S", "P">>, <<"e", "a", "x">>, <<"r", "1", "6">>,
           <<"0", "0", "x", "1", "0">>, <<"0", "x", "0", "x", "1">>, <<"1", "0", "h">>,
           <<"0", "x", "r", "s", "p">>, <<"f", "f">>,
           <<"1", "8", "4", "4", "6", "7", "4", "4", "0", "7", "3",
             "7", "0", "9", "5", "5", "1", "6", "1", "5">>,
           <<"1", "8", "4", "4", "6", "7", "4", "4", "0", "7", "3",
             "7", "0", "9", "5", "5", "1", "6", "1", "6">>,
           <<"0", "x", "f", "f", "f", "f", "f", "f", "f", "f",
             "f", "f", "f", "f", "f", "f", "f", "f">>,
           <<"0", "x", "1", "0", "0", "0", "0", "0", "0", "0", "0",
             "0", "0", "0", "0", "0", "0", "0", "0">> }

\* Register files the resolver is called on: as newCPU and cpu.run leave it, and
\* with a different value in every register.
ResolveRegfiles ==
    { registerFile,
      run([a \in 0..(MemSize - 1) |-> 0], registerFile, Image(1, 1, <<195>>)).regfile,
      [r \in Registers |-> <<r + 1, 2, 3, 4, 5, 6, 7, 200 + r>>] }

InitResolve ==
    /\ debug = TRUE
    /\ proc = Image(1, 1, <<195>>)
    /\ elf = proc
    /\ locals = noLocals
    /\ mem = [a \in 0..(MemSize - 1) |-> (7 * a + 3) % 256]
    /\ regfile \in ResolveRegfiles
    /\ tick = 0
    /\ epc = "wait"
    /\ exitStatus = -1
    /\ cpc = "prompt"
    /\ intFormat = "%d"
    /\ obs = [cmd |-> "none", tick |-> 0, epc |-> "boot"]
    /\ produced = 0
    /\ consumed = 0
    /\ executed = 0
    /\ hist = <<>>
    /\ raxAtHalt = <<>>

ResolveCall ==
    /\ hist = <<>>
    /\ \E dval \in ResolveTokens :
        \E r \in {resolveDebuggerValue(regfile, dval)} :
            hist' = <<[op |-> "resolve", token |-> dval, ok |-> r.ok, val |-> r.val]>>
    /\ UNCHANGED <<mem, regfile, tick, epc, exitStatus, proc, elf, locals, debug, cpc, intFormat, obs,
                   produced, consumed, executed, raxAtHalt>>

NextResolve == ResolveCall

SpecResolve == InitResolve /\ [][NextResolve]_vars

(***************************************************************************)
(* Properties.                                                             *)
(***************************************************************************)
BootState == run([a \in 0..(MemSize - 1) |-> 0], registerFile, proc)

\* C1: the gate holds at most one unconsumed step request: the completed sends
\* never exceed the completed receives by more than one, under either controller.
C1_AtMostOnePending == /\ tick = produced - consumed
                       /\ produced - consumed \in {0, 1}

\* The free-run controller is one request ahead of an engine that has executed.
C1_Witness == ~debug /\ produced = consumed + 1 /\ executed >= 1 /\ epc = "fetch"

\* C2: the engine never executes more instructions than step requests were
\* produced, and with no request produced the registers and the memory stay as
\* the bootstrap left them.
C2_OneInstructionPerStep ==
    /\ executed <= produced
    /\ (produced = 0 /\ epc \notin {"boot", "loaderror", "nobinary"})
          => (mem = BootState.mem /\ regfile = BootState.regfile)

\* Every request produced so far has been used for an instruction.
C2_Witness == executed = produced /\ executed >= 2 /\ epc = "wait"

\* C3 (as claimed): whenever a registers or memory command of repl reads engine
\* state, no step request is pending and the engine is not inside an instruction.
C3_ReadsOnlyBetweenSteps ==
    obs.cmd \in {"registers", "memory"} => (obs.tick = 0 /\ obs.epc # "fetch")

(***************************************************************************)
(* The model under the fairness Go's scheduler gives the two goroutines:   *)
(* a goroutine that can run does run.  The single-step controller depends  *)
(* on its input, and gets none.                                            *)
(***************************************************************************)
FairSpec == Spec /\ WF_vars(Engine) /\ WF_vars(FreeRun)

RetOnly == proc.bin = <<195>> /\ proc.entryPoint = proc.startAddress

\* C4: under the free-run controller an image that is a lone ret at the entry
\* address halts, after that one instruction, with exit status 0.
C4_RetOnlyTerminates ==
    /\ (RetOnly /\ ~debug) ~> (epc = "exited")
    /\ [](RetOnly /\ epc \in {"halt", "exited"} => executed = 1 /\ get(regfile, rax) = Zero64)
    /\ [](RetOnly /\ epc = "exited" => exitStatus = 0)

C4_Witness == RetOnly /\ ~debug /\ epc = "exited" /\ exitStatus = 0 /\ proc.startAddress = 7

MovEax5Bytes == <<184, 5, 0, 0, 0, 195>>

MovEax5Ret == Image(1, 1, MovEax5Bytes)

\* C5 (as claimed): the exit status of a run that halts is the low byte of the
\* rax held when rip became the sentinel, and the image mov eax,5; ret loaded at
\* address 0 with entry point 0 ends with exit status 5.
C5_AsClaimed ==
    /\ epc = "exited" => exitStatus = raxAtHalt[1]
    /\ (~debug /\ elf = Image(0, 0, MovEax5Bytes) /\ exitStatus # -1)
          => (epc = "exited" /\ exitStatus = 5)

\* C5 (amended): the exit status of a run that halts (cpu.run reaches os.Exit)
\* is the low byte of the rax held when rip became the sentinel; the image
\* mov eax,5; ret at a load address and entry point that readELF accepts
\* (address 1) ends with exit status 5 under the free-run controller, and a file
\* with entry point or load address 0 ends in main with the status of a panic,
\* no instruction executed.
C5_ExitStatusIsRax ==
    /\ epc = "exited" => /\ exitStatus = raxAtHalt[1]
                         /\ proc = MovEax5Ret => exitStatus = 5
    /\ (~debug /\ elf = MovEax5Ret /\ exitStatus # -1) => (epc = "exited" /\ exitStatus = 5)
    /\ (epc # "nobinary" /\ (elf.entryPoint = 0 \/ elf.startAddress = 0))
          => (epc = "loaderror" /\ exitStatus = panicStatus /\ executed = 0)

C5_Witness == epc = "exited" /\ proc = MovEax5Ret /\ exitStatus = 5 /\ executed = 2

\* v mod 2^(8w): the low w digits of v.
Trunc(v, w) == Make64(LAMBDA d : IF d <= w THEN v[d] ELSE 0)

\* C6: a write of width w in bounds followed by the read of the same range gives
\* v mod 2^(8w), and the write changes no byte outside [a, a+w).
C6_RoundTrip ==
    (Len(hist) = 2 /\ hist[1].op = "read" /\ IsSmall(hist[2].start)
        /\ ToNat(hist[2].start) + hist[2].bytes <= MemSize)
    => LET wr == hist[2]
           rd == hist[1]
           a == ToNat(wr.start)
       IN /\ wr.ok /\ rd.ok
          /\ rd.val = Trunc(wr.val, wr.bytes)
          /\ (IsSmall(wr.val) /\ wr.bytes <= 2)
                => ToNat(rd.val) = ToNat(wr.val) % (256 ^ wr.bytes)
          /\ \A x \in 0..(MemSize - 1) :
                (x < a \/ x >= a + wr.bytes) => mem[x] = wr.before[x]

\* Two bytes of an eight-byte value written and read back at the end of the memory.
C6_Witness ==
    /\ Len(hist) = 2 /\ hist[1].op = "read"
    /\ hist[2].start = U64Of(MemSize - 2) /\ hist[2].bytes = 2
    /\ hist[2].val = <<241, 242, 243, 244, 245, 246, 247, 248>>
    /\ hist[1].val = <<241, 242, 0, 0, 0, 0, 0, 0>>
    /\ hist[2].before[0] = 3

\* C7: push R immediately followed by pop R, with the stack slot in bounds and
\* away from the two instruction bytes, leaves R and the stack pointer as they
\* were before the push, for every R in rax..rdi.
PushThenPop ==
    /\ Len(hist) = 2
    /\ hist[2].n = 0 /\ hist[2].op \in 80..87
    /\ hist[1].n = 0 /\ hist[1].op = hist[2].op + 8
    /\ hist[1].ip = Add64(hist[2].ip, U64Of(1))
    /\ LET sp == hist[2].regs[rsp]
           ip == hist[2].ip
       IN /\ IsSmall(sp) /\ ToNat(sp) >= 8 /\ ToNat(sp) <= MemSize
          /\ IsSmall(ip)
          /\ (ToNat(sp) <= ToNat(ip) \/ ToNat(sp) - 8 >= ToNat(ip) + 2)

C7_PushPopInverse ==
    PushThenPop => /\ regfile[hist[2].op - 80] = hist[2].regs[hist[2].op - 80]
                   /\ regfile[rsp] = hist[2].regs[rsp]

\* push rsp; pop rsp: the stack pointer is the sentinel address again.
C7_Witness ==
    /\ PushThenPop /\ hist[2].op = 80 + rsp
    /\ hist[2].regs[rsp] = initialStackPointer
    /\ regfile[rsp] = initialStackPointer

\* The address of the first byte at or after a that is no prefix byte (MemSize if none).
RECURSIVE OpcodeAt(_, _)
OpcodeAt(m, a) ==
    IF a >= MemSize THEN MemSize
    ELSE IF m[a] = 72 \/ m[a] = 102 THEN OpcodeAt(m, a + 1) ELSE a

\* The step is an iteration of cpu.loop that completed an instruction.
Completed == executed' = executed + 1 /\ InRange(regfile[rip], MemSize)

FetchAt == ToNat(regfile[rip])

\* The immediate bytes of mov R, imm whose opcode is at o, fetched at a: the last
\* prefix byte decides.
ImmBytes(m, a, o) == IF o = a THEN 4 ELSE IF m[o - 1] = 72 THEN 8 ELSE 2

\* C8: mov R, imm sets the whole register R to the immediate (8 bytes after
\* 0x48, 4 bytes without prefix, 2 bytes after 0x66), zero-extended; no other
\* general-purpose register and no memory byte changes.
C8_MovImmediate ==
    [][ Completed =>
          LET o == OpcodeAt(mem, FetchAt) IN
          (o < MemSize /\ mem[o] \in 184..191) =>
             LET R == mem[o] - 184
                 nbytes == ImmBytes(mem, FetchAt, o)
             IN /\ regfile'[R] = Make64(LAMBDA d : IF d <= nbytes THEN mem[o + d] ELSE 0)
                /\ \A r \in (rax..r15) \ {R} : regfile'[r] = regfile[r]
                /\ mem' = mem ]_vars

\* mov ax, 0x9234 (prefix 0x66) over a rax that held a 64-bit value.
C8_Witness ==
    /\ Len(hist) >= 1 /\ hist[1].op = 184 /\ hist[1].n = 1 /\ hist[1].widthPrefix = 16
    /\ hist[1].regs[rax] = <<241, 242, 243, 244, 245, 246, 247, 248>>
    /\ regfile[rax] = <<52, 146, 0, 0, 0, 0, 0, 0>>

Recognized == (80..95) \cup {137} \cup (184..191) \cup {195}

\* C9: an opcode byte outside the recognized set ends the engine at once: rip is
\* not advanced (not even over the prefix bytes), no register and no memory byte
\* changes, and no instruction is executed afterwards.
C9_FaultLaw ==
    [][ /\ (/\ epc = "fetch" /\ epc' # "fetch"
            /\ regfile[rip] # initialStackPointer
            /\ InRange(regfile[rip], MemSize)
            /\ LET o == OpcodeAt(mem, FetchAt) IN o < MemSize /\ mem[o] \notin Recognized)
           => (epc' = "panicked" /\ regfile' = regfile /\ mem' = mem /\ executed' = executed)
        /\ epc = "panicked"
           => (epc' = "panicked" /\ regfile' = regfile /\ mem' = mem /\ executed' = executed)
      ]_vars

\* 0x66 0x48 0x0F at address 1: the engine has stopped with rip still 1.
C9_Witness ==
    /\ epc = "panicked" /\ proc = Image(1, 1, <<102, 72, 15, 195>>)
    /\ regfile[rip] = U64Of(1) /\ executed = 0 /\ consumed = 1 /\ produced = 2

\* C10: a completed instruction other than ret leaves rip at its value at fetch
\* plus the prefix bytes, the opcode byte and the operand bytes; ret leaves rip
\* at the eight bytes read at the old stack pointer and adds 8 to rsp.
C10_IpAdvance ==
    [][ Completed =>
          LET a == FetchAt
              o == OpcodeAt(mem, a)
              op == mem[o]
              operand == CASE op \in 80..95 -> 0
                           [] op = 137 -> 1
                           [] op \in 184..191 -> ImmBytes(mem, a, o)
                           [] OTHER -> 0
          IN IF op = 195
             THEN /\ regfile'[rip] =
                        Make64(LAMBDA d : mem[ToNat(regfile[rsp]) + d - 1])
                  /\ regfile'[rsp] = Add64(regfile[rsp], U64Of(8))
             ELSE regfile'[rip] = U64Of(a + (o - a) + 1 + operand) ]_vars

\* 0x66 0x48 0xBB and eight immediate bytes at address 1: rip is 12 afterwards.
C10_Witness ==
    /\ Len(hist) >= 1 /\ hist[1].op = 187 /\ hist[1].n = 2 /\ hist[1].ip = U64Of(1)
    /\ regfile[rip] = U64Of(12) /\ epc = "wait"

\* C11 (as claimed): a repl command other than step, whatever its arguments,
\* changes no register, no memory byte and not the gate, leaves the engine and
\* the process running, and repl goes on to read the next command.
C11_ControllerErrorsLocal ==
    [][ (ReplMemory \/ ReplMemoryTo \/ ReplRegisters \/ ReplDecimal \/ ReplHelp)
          => /\ UNCHANGED <<mem, regfile, tick, epc, exitStatus>>
             /\ cpc' \in {"prompt", "memory"} ]_vars

\* The digits of base 10 and base 16, and the number a string of them denotes.
DecDigits == <<"0", "1", "2", "3", "4", "5", "6", "7", "8", "9">>
HexDigitsLower == DecDigits \o <<"a", "b", "c", "d", "e", "f">>
HexDigitsUpper == DecDigits \o <<"A", "B", "C", "D", "E", "F">>

IsDigit(c, base) == \E k \in 1..base : HexDigitsLower[k] = c \/ HexDigitsUpper[k] = c

RECURSIVE NatOf(_, _)
NatOf(str, base) ==
    IF str = <<>> THEN 0
    ELSE NatOf(SubSeq(str, 1, Len(str) - 1), base) * base
         + (CHOOSE k \in 1..base : HexDigitsLower[k] = str[Len(str)]
                                     \/ HexDigitsUpper[k] = str[Len(str)]) - 1

\* What a call that parsed str in a base must have returned: an error for the
\* empty string and for a character that is no digit of the base, else the number.
ParsedAs(call, str, base) ==
    IF str = <<>> \/ \E i \in 1..Len(str) : ~IsDigit(str[i], base) THEN ~call.ok
    ELSE Len(str) <= 7 => (call.ok /\ IsSmall(call.val) /\ ToNat(call.val) = NatOf(str, base))

AllOnes64 == <<255, 255, 255, 255, 255, 255, 255, 255>>

\* C12: the resolver gives a register name the current value of the register,
\* else a token with the prefix 0x or 0X the hexadecimal value of the rest, else
\* the decimal value of the token; every other token is an error (2^64 - 1 is
\* the largest value, in both bases); a call changes no register and no memory byte.
C12_ResolverLaw ==
    /\ [](Len(hist) = 1 =>
            LET call == hist[1]
                t == call.token
            IN /\ IF \E reg \in Registers : registerMap[reg] = t
                  THEN call.ok /\ \A reg \in Registers :
                                     registerMap[reg] = t => call.val = regfile[reg]
                  ELSE IF Len(t) >= 2 /\ t[1] = "0" /\ t[2] \in {"x", "X"}
                  THEN ParsedAs(call, SubSeq(t, 3, Len(t)), 16)
                  ELSE ParsedAs(call, t, 10)
               /\ t = <<"r", "s", "p">> => call.val = regfile[rsp]
               /\ t = <<"0", "x", "1", "0">> => (call.ok /\ call.val = U64Of(16))
               /\ t = <<"1", "6">> => (call.ok /\ call.val = U64Of(16))
               /\ (Len(t) = 20 /\ t[20] = "5") => (call.ok /\ call.val = AllOnes64)
               /\ (Len(t) = 20 /\ t[20] = "6") => ~call.ok
               /\ (Len(t) = 18 /\ t[3] = "f") => (call.ok /\ call.val = AllOnes64)
               /\ (Len(t) = 19 /\ t[3] = "1") => ~call.ok)
    /\ [][UNCHANGED <<mem, regfile>>]_vars

\* 0x10 resolved to 16 while rsp holds the sentinel address.
C12_Witness ==
    /\ Len(hist) = 1 /\ hist[1].op = "resolve"
    /\ hist[1].token = <<"0", "x", "1", "0">> /\ hist[1].ok /\ hist[1].val = U64Of(16)
    /\ regfile[rsp] = initialStackPointer

\* The range of memory the instruction at rip reads or writes, from the state
\* before it executes: its first address and its width.
AccessOpcode == mem[OpcodeAt(mem, FetchAt)]

AccessAddress ==
    CASE AccessOpcode \in 80..87 -> Sub64(regfile[rsp], U64Of(8))
      [] AccessOpcode \in (88..95) \cup {195} -> regfile[rsp]
      [] OTHER -> U64Of(OpcodeAt(mem, FetchAt) + 1)

AccessWidth ==
    IF AccessOpcode \in 184..191 THEN ImmBytes(mem, FetchAt, OpcodeAt(mem, FetchAt)) ELSE 8

\* C13: a push, pop, ret or mov R, imm whose bytes [address, address+width),
\* with the address computed modulo 2^64, are not all inside the memory ends the
\* engine: no register changes, no byte outside the addressed range changes, no
\* instruction is counted, and the engine does nothing afterwards.
C13_BoundsContract ==
    [][ /\ (/\ epc = "fetch" /\ epc' # "fetch"
            /\ regfile[rip] # initialStackPointer
            /\ InRange(regfile[rip], MemSize)
            /\ OpcodeAt(mem, FetchAt) < MemSize
            /\ AccessOpcode \in (80..95) \cup (184..191) \cup {195}
            /\ ~(IsSmall(AccessAddress) /\ ToNat(AccessAddress) + AccessWidth <= MemSize))
           => /\ epc' = "panicked"
              /\ regfile' = regfile
              /\ executed' = executed
              /\ \A x \in 0..(MemSize - 1) :
                    mem'[x] # mem[x] => (IsSmall(AccessAddress) /\ x >= ToNat(AccessAddress))
        /\ epc = "panicked" => UNCHANGED <<epc, regfile, mem, executed, hist>>
      ]_vars

\* A push with the stack pointer at 4: the engine has stopped on it, the memory
\* as the bootstrap and the mov left it.
C13_Witness ==
    /\ epc = "panicked" /\ executed = 1
    /\ regfile[rsp] = U64Of(4)
    /\ InRange(regfile[rip], MemSize) /\ AccessOpcode \in 80..87
    /\ mem[MemSize - 4] = 0 /\ mem[MemSize - 8] = MemSize - 8

\* C14 (as claimed): after pop R, for every R in rax..rdi with rsp among them,
\* R holds the eight bytes that were at the old stack pointer and the stack
\* pointer is its old value plus 8.
C14_Pop ==
    [][ (Completed /\ AccessOpcode \in 88..95)
          => /\ regfile'[AccessOpcode - 88] =
                    Make64(LAMBDA d : mem[ToNat(regfile[rsp]) + d - 1])
             /\ regfile'[rsp] = Add64(regfile[rsp], U64Of(8)) ]_vars

\* C15: push R stores the value R held before the instruction (for rsp the
\* stack pointer before the decrement) at the old stack pointer minus 8,
\* subtracts 8 from the stack pointer and changes no other byte; every other
\* instruction leaves the memory as it is, and the memory changes in no step
\* but the bootstrap and a push.
C15_PushOnlyWriter ==
    [][ /\ Completed =>
              IF AccessOpcode \in 80..87
              THEN LET at == ToNat(Sub64(regfile[rsp], U64Of(8))) IN
                   /\ \A d \in Digits : mem'[at + d - 1] = regfile[AccessOpcode - 80][d]
                   /\ \A x \in 0..(MemSize - 1) : (x < at \/ x >= at + 8) => mem'[x] = mem[x]
                   /\ regfile'[rsp] = Sub64(regfile[rsp], U64Of(8))
              ELSE mem' = mem
        /\ (mem' # mem /\ epc # "boot")
              => (epc = "fetch" /\ InRange(regfile[rip], MemSize) /\ AccessOpcode \in 80..87)
      ]_vars

\* push rsp on the fresh stack: the slot holds the sentinel address, the stack
\* pointer before the decrement.
C15_Witness ==
    /\ Len(hist) >= 1 /\ hist[1].op = 80 + rsp /\ hist[1].n = 0
    /\ hist[1].regs[rsp] = initialStackPointer
    /\ regfile[rsp] = U64Of(MemSize - 16)
    /\ mem[MemSize - 16] = MemSize - 8 /\ mem[MemSize - 15] = 0

\* C16: mov with opcode 0x89 copies all 64 bits of the register named by bits
\* 3-5 of the mode byte to the register named by bits 0-2, whatever bits 6-7 and
\* the prefix bytes are; no register but the destination and rip changes.
C16_MovRegReg ==
    [][ (Completed /\ AccessOpcode = 137)
          => LET modrm == mem[OpcodeAt(mem, FetchAt) + 1]
                 dst == modrm % 8
                 src == (modrm \div 8) % 8
             IN /\ regfile'[dst] = regfile[src]
                /\ \A r \in Registers \ {dst, rip} : regfile'[r] = regfile[r] ]_vars

\* 0x66 0x89 0xD8 (mov rax <- rbx under the 16-bit prefix) with a 64-bit value in rbx.
C16_Witness ==
    /\ Len(hist) >= 1 /\ hist[1].op = 137 /\ hist[1].n = 1 /\ hist[1].widthPrefix = 16
    /\ hist[1].regs[rbx] = <<241, 242, 243, 244, 245, 246, 247, 248>>
    /\ hist[1].regs[rax] = Zero64
    /\ regfile[rax] = <<241, 242, 243, 244, 245, 246, 247, 248>>
    /\ regfile[rbx] = regfile[rax]

\* C17: the operand width an instruction is decoded with is 32 when its opcode
\* byte is the first byte fetched, else 64 when the prefix byte just before the
\* opcode is 0x48 and 16 when it is 0x66, whatever the width of the instruction
\* before it was; a mov R, imm reads that many bits of immediate.
C17_PrefixScan ==
    [][ Completed =>
          LET a == FetchAt
              o == OpcodeAt(mem, a)
              width == IF o = a THEN 32 ELSE IF mem[o - 1] = 72 THEN 64 ELSE 16
          IN /\ hist'[1].widthPrefix = width
             /\ hist'[1].n = o - a
             /\ hist'[1].op = mem[o]
             /\ mem[o] \in 184..191 =>
                   /\ regfile'[mem[o] - 184] =
                          Make64(LAMBDA d : IF 8 * d <= width THEN mem[o + d] ELSE 0)
                   /\ regfile'[rip] = U64Of(o + 1 + width \div 8) ]_vars

\* A mov with the 0x48 prefix followed by a mov without prefix: the second one
\* is decoded with 32 bits.
C17_Witness ==
    /\ Len(hist) = 2
    /\ hist[2].widthPrefix = 64 /\ hist[2].n = 1 /\ hist[2].op = 184
    /\ hist[1].widthPrefix = 32 /\ hist[1].n = 0 /\ hist[1].op = 184 + rbx
    /\ regfile[rbx] = <<239, 205, 171, 137, 0, 0, 0, 0>>
    /\ regfile[rax] = <<241, 242, 243, 244, 245, 246, 247, 248>>

\* C18: the loop is left only by an iteration that has received a step request
\* and finds rip equal to the sentinel, and that iteration executes nothing: a
\* run that halts after n instructions has consumed n + 1 requests (3 for
\* mov eax,5; ret).  Under repl, once rip is the sentinel and every request
\* produced has been used, the engine cannot move until another step is sent.
C18_HaltCostsOneStep ==
    /\ [](epc \in {"halt", "exited"} => (consumed = executed + 1 /\ produced >= executed + 1))
    /\ []((proc = MovEax5Ret /\ epc \in {"halt", "exited"}) => (executed = 2 /\ consumed = 3))
    /\ [][ (epc' = "halt" /\ epc # "halt")
              => /\ epc = "fetch" /\ regfile[rip] = initialStackPointer
                 /\ UNCHANGED <<regfile, mem, executed, consumed>> ]_vars
    /\ []((debug /\ Alive /\ epc = "wait" /\ regfile[rip] = initialStackPointer
              /\ produced = executed)
           => (tick = 0 /\ ~ENABLED Engine /\ (cpc = "prompt" => ENABLED ReplStep)))

\* mov eax,5; ret under repl after two steps: rip is the sentinel and the engine
\* waits, not halted, for a third step.
C18_Witness ==
    /\ debug /\ proc = MovEax5Ret /\ Alive
    /\ executed = 2 /\ produced = 2 /\ consumed = 2
    /\ epc = "wait" /\ regfile[rip] = initialStackPointer /\ exitStatus = -1

\* C19: r8..r15 and rflags hold 0 in every state: the bootstrap writes rip and
\* rsp, and the instructions write rax..rdi and rip.
C19_HighRegistersZero ==
    \A r \in (r8..r15) \cup {rflags} : regfile[r] = Zero64

\* mov rbx, imm64 and then 0x48 0x89 0xD8 have run: rax and rbx hold the 64-bit
\* value, the registers above rdi hold 0.
C19_Witness ==
    /\ Len(hist) = 2 /\ hist[1].op = 137 /\ hist[1].n = 1 /\ hist[1].widthPrefix = 64
    /\ regfile[rax] = <<241, 242, 243, 244, 245, 246, 247, 248>>
    /\ regfile[rbx] = regfile[rax]
    /\ regfile[rsp] = initialStackPointer
    /\ regfile[r8] = Zero64 /\ regfile[r15] = Zero64 /\ regfile[rflags] = Zero64

\* readELF returned an image and main started the engine.
Started == epc \notin {"loaderror", "nobinary"}

\* The engine has left the loop or the process has died of a panic.
Ended == epc \in {"halt", "exited", "panicked"}

\* C20: under the free-run controller, while the engine has neither halted nor
\* faulted (and the controller has requests left to send), the engine or the
\* controller can take a step: the engine waiting on an empty gate and the
\* controller waiting on a full gate never hold together.  Under fair scheduling
\* the engine then executes its next instruction, or halts or faults on it, again
\* and again: it ends, or executes an instruction for every request of the run.
C20_FreeRunProgress ==
    /\ []((~debug /\ Started /\ ~Ended /\ produced < MaxSteps)
            => (ENABLED Engine \/ ENABLED FreeRun))
    /\ [](~debug => ~(epc = "wait" /\ ~canReceive(tick) /\ ~canSend(tick)))
    /\ (~debug /\ Started) ~> (Ended \/ executed = MaxSteps)

\* The free-run controller against the push/ret loop: the engine has executed
\* six instructions and waits on the empty gate, the controller can send.
C20_Witness ==
    /\ ~debug /\ proc = Image(1, 1, <<184, 6, 0, 0, 0, 80, 195>>)
    /\ executed = 6 /\ epc = "wait" /\ tick = 0 /\ produced = 6

====
